---- MODULE Spec2Model ----
(***************************************************************************)
(* GDG FlashCard: the relational store declared by the Drizzle schema      *)
(* (tables decks and cards, the cards.deck_id foreign key with             *)
(* ON DELETE CASCADE) under the data-modifying statements PostgreSQL       *)
(* accepts against it; the root layout and landing page rendered for a     *)
(* visitor's Clerk session; and the evaluation of the database module      *)
(* src/db/index.ts.                                                        *)
(*                                                                         *)
(* The repository holds no spaced-repetition scheduler, session planner or *)
(* outcome recorder (README roadmap: "[ ] Add spaced repetition            *)
(* algorithm"), so no definition below models one.                         *)
(***************************************************************************)
EXTENDS Integers, FiniteSets

(* ---- bounds of the model ---------------------------------------------- *)

\* highest value the decks_id_seq sequence hands out in the model
MaxDeckId == 3

\* highest value the cards_id_seq sequence hands out in the model
MaxCardId == 3

\* how many times the database module is evaluated (process starts) in the model
MaxLoads == 3

(* ---- column domains --------------------------------------------------- *)

\* SQL NULL in an integer column (serial ids start at 1, so never an id)
IntNull == -1

\* SQL NULL in a text column
TextNull == "<null>"

\* Clerk user ids a statement may carry in decks.user_id
UserIds == {"user_a", "user_b"}

\* text values a statement may carry in title / front / back
Texts == {"txt"}

\* deck ids a statement may name: every id the sequence can hand out, and one
\* it never hands out
DeckIdArgs == 1..(MaxDeckId + 1)

\* card ids a statement may name
CardIdArgs == 1..(MaxCardId + 1)

VARIABLES
    decks,       \* rows of table decks:  [id, userId, title]
    cards,       \* rows of table cards:  [id, deckId, front, back]
    decksIdSeq,  \* last value of the serial sequence behind decks.id
    cardsIdSeq,  \* last value of the serial sequence behind cards.id
    result,      \* outcome of the last statement: [stmt, status, cascaded]
    session,     \* the visitor's Clerk session: SignedOutSession or a user id
    view,        \* what the visitor's browser shows: [viewer, content, signInButton, signUpButton, userButton]
    env,         \* process.env.DATABASE_URL of the running process
    pc,          \* position in the evaluation of src/db/index.ts
    loads,       \* evaluations of src/db/index.ts started so far
    pools,       \* Pool objects constructed by the current evaluation
    dbInstances, \* drizzle instances constructed by the current evaluation
    error        \* message of the Error the current evaluation threw, or NoError

storeVars == <<decks, cards, decksIdSeq, cardsIdSeq, result>>

webVars == <<session, view>>

dbModuleVars == <<env, pc, loads, pools, dbInstances, error>>

vars == <<storeVars, webVars, dbModuleVars>>

(* ---- the schema's constraints ----------------------------------------- *)

\* primary keys present in table decks
DeckIds == {d.id : d \in decks}

\* primary keys present in table cards
CardIds == {c.id : c \in cards}

\* decks: user_id and title are NOT NULL (description is nullable and carries
\* no constraint; created_at / updated_at always take their defaultNow())
DeckNotNull(userId, title) ==
    userId # TextNull /\ title # TextNull

\* cards: deck_id, front and back are NOT NULL
CardNotNull(deckId, front, back) ==
    deckId # IntNull /\ front # TextNull /\ back # TextNull

\* cards.deck_id REFERENCES decks.id: the referenced key must be present
DeckRefExists(deckRows, deckId) ==
    \E d \in deckRows : d.id = deckId

\* ON DELETE CASCADE: the cards that survive the deletion of deck deckId
KeepAllCards(cardRows, deckId) ==
    cardRows

CascadeSurvivors(cardRows, deckId) ==
    {c \in cardRows : c.deckId # deckId}

\* what the database reports for a statement; cascaded counts the cards rows
\* the statement removed through the foreign key's ON DELETE CASCADE
Outcome(stmt, status, cascaded) ==
    [stmt |-> stmt, status |-> status, cascaded |-> cascaded]

(* ---- the root layout and the landing page ----------------------------- *)

\* the Clerk session of a visitor who is not signed in
SignedOutSession == "signed_out"

\* the browser before any page of the application was requested
BlankView ==
    [viewer |-> "nobody", content |-> FALSE, signInButton |-> FALSE,
     signUpButton |-> FALSE, userButton |-> FALSE]

\* src/middleware.ts as documented: clerkMiddleware() without a handler, so no
\* request is turned away and every request reaches the layout
MiddlewareLetsThrough(sess) ==
    TRUE

\* <SignedOut>: renders its children only when no user is signed in
SignedOut(sess) ==
    sess = SignedOutSession

\* <SignedIn>: renders its children only when a user is signed in
SignedInAlways(sess) ==
    TRUE

SignedIn(sess) ==
    sess # SignedOutSession

\* Home: the landing page, takes no session and renders the same for everyone
Home ==
    TRUE

\* RootLayout: the header with the SignedOut / SignedIn blocks, then {children}
\* outside both blocks
RootLayout(sess, children) ==
    [viewer |-> sess,
     content |-> children,
     signInButton |-> SignedOut(sess),
     signUpButton |-> SignedOut(sess),
     userButton |-> SignedIn(sess)]

(* ---- the database module src/db/index.ts ------------------------------ *)

\* process.env.DATABASE_URL not defined
EnvUnset == "<undefined>"

\* values process.env.DATABASE_URL may have when the process starts
EnvValues == {EnvUnset, "", "postgresql://neon"}

\* no Error thrown
NoError == "<none>"

\* the message of the Error thrown at line 5
MissingUrlMessage == "DATABASE_URL environment variable is not set"

\* !process.env.DATABASE_URL : undefined and the empty string are falsy
UrlOnlyUndefined(url) ==
    url = EnvUnset

UrlFalsy(url) ==
    url = EnvUnset \/ url = ""

(* ---- initial state: the migrated, empty database; no page requested;    *)
(* ---- a process started with some environment, module not imported ----- *)

Init ==
    /\ decks = {}
    /\ cards = {}
    /\ decksIdSeq = 0
    /\ cardsIdSeq = 0
    /\ result = Outcome("none", "ok", 0)
    /\ session = SignedOutSession
    /\ view = BlankView
    /\ env \in EnvValues
    /\ pc = "idle"
    /\ loads = 0
    /\ pools = 0
    /\ dbInstances = 0
    /\ error = NoError

(* ---- statements ------------------------------------------------------- *)

\* INSERT INTO decks (user_id, title) VALUES (userId, title)
\* the serial default draws the next sequence value before the constraints
\* are checked, so a rejected row still consumes its id
InsertDeck(userId, title) ==
    /\ decksIdSeq < MaxDeckId
    /\ decksIdSeq' = decksIdSeq + 1
    /\ IF DeckNotNull(userId, title)
       THEN /\ decks' = decks \cup {[id |-> decksIdSeq + 1, userId |-> userId, title |-> title]}
            /\ result' = Outcome("insert_deck", "ok", 0)
       ELSE /\ decks' = decks
            /\ result' = Outcome("insert_deck", "not_null_violation", 0)
    /\ UNCHANGED <<cards, cardsIdSeq, webVars, dbModuleVars>>

\* INSERT INTO cards (deck_id, front, back) VALUES (deckId, front, back)
InsertCard(deckId, front, back) ==
    /\ cardsIdSeq < MaxCardId
    /\ cardsIdSeq' = cardsIdSeq + 1
    /\ IF ~CardNotNull(deckId, front, back)
       THEN /\ cards' = cards
            /\ result' = Outcome("insert_card", "not_null_violation", 0)
       ELSE IF ~DeckRefExists(decks, deckId)
       THEN /\ cards' = cards
            /\ result' = Outcome("insert_card", "foreign_key_violation", 0)
       ELSE /\ cards' = cards \cup {[id |-> cardsIdSeq + 1, deckId |-> deckId, front |-> front, back |-> back]}
            /\ result' = Outcome("insert_card", "ok", 0)
    /\ UNCHANGED <<decks, decksIdSeq, webVars, dbModuleVars>>

\* UPDATE cards SET deck_id = deckId WHERE id = cardId
UpdateCardDeck(cardId, deckId) ==
    /\ IF cardId \notin CardIds
       THEN /\ cards' = cards
            /\ result' = Outcome("update_card", "ok", 0)
       ELSE IF deckId = IntNull
       THEN /\ cards' = cards
            /\ result' = Outcome("update_card", "not_null_violation", 0)
       ELSE IF ~DeckRefExists(decks, deckId)
       THEN /\ cards' = cards
            /\ result' = Outcome("update_card", "foreign_key_violation", 0)
       ELSE /\ cards' = {IF c.id = cardId THEN [c EXCEPT !.deckId = deckId] ELSE c : c \in cards}
            /\ result' = Outcome("update_card", "ok", 0)
    /\ UNCHANGED <<decks, decksIdSeq, cardsIdSeq, webVars, dbModuleVars>>

\* DELETE FROM decks WHERE id = deckId   (the cascade is part of the statement)
DeleteDeck(deckId) ==
    /\ decks' = {d \in decks : d.id # deckId}
    /\ cards' = IF deckId \in DeckIds THEN CascadeSurvivors(cards, deckId) ELSE cards
    /\ result' = Outcome("delete_deck", "ok", Cardinality(cards) - Cardinality(cards'))
    /\ UNCHANGED <<decksIdSeq, cardsIdSeq, webVars, dbModuleVars>>

\* DELETE FROM cards WHERE id = cardId
DeleteCard(cardId) ==
    /\ cards' = {c \in cards : c.id # cardId}
    /\ result' = Outcome("delete_card", "ok", 0)
    /\ UNCHANGED <<decks, decksIdSeq, cardsIdSeq, webVars, dbModuleVars>>

(* ---- requests and Clerk session changes ------------------------------- *)

\* GET / : the middleware runs, then RootLayout renders with Home as children
VisitPage ==
    /\ MiddlewareLetsThrough(session)
    /\ view' = RootLayout(session, Home)
    /\ UNCHANGED <<session, storeVars, dbModuleVars>>

\* the visitor uses the header's SignInButton; Clerk sets the session and the
\* page is rendered again for it
SignIn(u) ==
    /\ view.signInButton
    /\ session' = u
    /\ view' = RootLayout(u, Home)
    /\ UNCHANGED <<storeVars, dbModuleVars>>

\* the visitor uses the header's SignUpButton
SignUp(u) ==
    /\ view.signUpButton
    /\ session' = u
    /\ view' = RootLayout(u, Home)
    /\ UNCHANGED <<storeVars, dbModuleVars>>

\* the visitor signs out through the header's UserButton
SignOut ==
    /\ view.userButton
    /\ session' = SignedOutSession
    /\ view' = RootLayout(SignedOutSession, Home)
    /\ UNCHANGED <<storeVars, dbModuleVars>>

(* ---- evaluation of src/db/index.ts ------------------------------------ *)

\* the module is imported for the first time in this process
ImportDb ==
    /\ pc = "idle"
    /\ loads < MaxLoads
    /\ loads' = loads + 1
    /\ pc' = "line4"
    /\ UNCHANGED <<env, pools, dbInstances, error, storeVars, webVars>>

\* lines 4-6: if (!process.env.DATABASE_URL) throw new Error(...)
CheckDatabaseUrl ==
    /\ pc = "line4"
    /\ IF UrlFalsy(env)
       THEN /\ pc' = "thrown"
            /\ error' = MissingUrlMessage
       ELSE /\ pc' = "line9"
            /\ error' = error
    /\ UNCHANGED <<env, loads, pools, dbInstances, storeVars, webVars>>

\* line 9: const pool = new Pool({ connectionString: process.env.DATABASE_URL })
CreatePool ==
    /\ pc = "line9"
    /\ pools' = pools + 1
    /\ pc' = "line12"
    /\ UNCHANGED <<env, loads, dbInstances, error, storeVars, webVars>>

\* line 12: export const db = drizzle(pool)
CreateDb ==
    /\ pc = "line12"
    /\ dbInstances' = dbInstances + 1
    /\ pc' = "loaded"
    /\ UNCHANGED <<env, loads, pools, error, storeVars, webVars>>

\* the process ends and a new one starts with environment e; nothing of the
\* previous evaluation survives
RestartProcess(e) ==
    /\ pc \in {"loaded", "thrown"}
    /\ env' = e
    /\ pc' = "idle"
    /\ pools' = 0
    /\ dbInstances' = 0
    /\ error' = NoError
    /\ UNCHANGED <<loads, storeVars, webVars>>

\* the statements against the store
Next ==
    \/ \E u \in UserIds \cup {TextNull}, t \in Texts \cup {TextNull} : InsertDeck(u, t)
    \/ \E d \in DeckIdArgs \cup {IntNull}, f \in Texts \cup {TextNull}, b \in Texts \cup {TextNull} :
          InsertCard(d, f, b)
    \/ \E c \in CardIdArgs, d \in DeckIdArgs \cup {IntNull} : UpdateCardDeck(c, d)
    \/ \E d \in DeckIdArgs : DeleteDeck(d)
    \/ \E c \in CardIdArgs : DeleteCard(c)

Spec == Init /\ [][Next]_vars

\* the visitor and the database module; neither reads or writes the store's
\* tables, and no store statement reads or writes their state
NextApp ==
    \/ VisitPage
    \/ \E u \in UserIds : SignIn(u)
    \/ \E u \in UserIds : SignUp(u)
    \/ SignOut
    \/ ImportDb
    \/ CheckDatabaseUrl
    \/ CreatePool
    \/ CreateDb
    \/ \E e \in EnvValues : RestartProcess(e)

SpecApp == Init /\ [][NextApp]_vars

(* ---- C3 --------------------------------------------------------------- *)

\* every stored card carries a non-null deck_id that is the key of exactly
\* one stored deck
CardsOwnedByOneDeck ==
    \A c \in cards :
        /\ c.deckId # IntNull
        /\ Cardinality({d \in decks : d.id = c.deckId}) = 1

\* a step that adds a card adds it under a deck that is stored before and
\* after the step
CardCreatedUnderDeck ==
    \A c \in cards' :
        c.id \notin CardIds => c.deckId \in DeckIds /\ c.deckId \in {d.id : d \in decks'}

\* a step that removes a deck removes exactly the cards whose deckId is that
\* deck and leaves every other card as it was
DeckDeleteCascades ==
    \A k \in DeckIds :
        k \notin {d.id : d \in decks'} =>
            cards' = {c \in cards : c.deckId # k}

C30_DbModuleLoad ==
    /\ env \in {EnvUnset, ""} =>
           /\ pools = 0 /\ dbInstances = 0
           /\ pc \in {"idle", "line4", "thrown"}
    /\ pc = "thrown" =>
           /\ env \in {EnvUnset, ""}
           /\ error = "DATABASE_URL environment variable is not set"
    /\ env \notin {EnvUnset, ""} => pc # "thrown" /\ error = NoError
    /\ pc = "line12" => pools = 1 /\ dbInstances = 0
    /\ pc = "loaded" => pools = 1 /\ dbInstances = 1

\* an evaluation with DATABASE_URL = "" has thrown, after an earlier
\* evaluation in another process
C30_Witness ==
    /\ env = ""
    /\ pc = "thrown"
    /\ error = MissingUrlMessage
    /\ loads >= 2

====
